---- MODULE Spec2Model ----
(***************************************************************************)
(* Hevy-Dash (app.py): the paginated fetch of the workout history, the     *)
(* flattening of workouts into per-set rows, the per-request dashboard     *)
(* handler that writes the chart files, and the grouped series behind the  *)
(* volume and PR charts.                                                   *)
(*                                                                         *)
(* Four specifications share the module, one per part of the program:      *)
(*   SpecFetch  fetch_workouts          (app.py 22-37)                     *)
(*   SpecNorm   process_workouts        (app.py 42-66)                     *)
(*   SpecDash   dashboard, concurrently (app.py 163-183)                   *)
(*   SpecAgg    create_volume_chart / create_pr_chart (app.py 90-114)      *)
(* Each leaves the variables of the other parts at their idle values.      *)
(***************************************************************************)
EXTENDS Integers, Sequences, FiniteSets, TLC

VARIABLES
    \* fetch_workouts
    f_pc,        \* "loop" | "done" (returned) | "raised" (exception left the function)
    page,        \* the local `page`
    workouts,    \* the local list `workouts`
    requested,   \* history: the page numbers requested, in order
    served,      \* history: what the upstream did for each request, in order
    \* process_workouts
    n_pc,        \* "loop" | "done" | "raised"
    n_in,        \* history: the workouts the for-loop has taken, in order
    rows,        \* the local list `rows`
    n_exc,       \* the exception that left process_workouts, "none" if none
    \* dashboard
    d_pc,        \* per request thread: where the handler stands
    df,          \* per thread: the frame process_workouts returned (its exercise column)
    gen,         \* per thread: which fetch the thread's frame came from
    form,        \* per thread: request.form.get("exercise_dropdown"), "" for none
    static,      \* static/*.png: for each file the fetch it was drawn from, 0 = no file
    resp,        \* per thread: what render_template was given
    nextGen,     \* history: number of the next fetch
    published,   \* history: exercises/selected of the last non-empty refresh served
    stale,       \* history, per thread: `published` when the thread rendered
    \* chart aggregations
    a_pc,        \* "rows" | "vol" | "pr" | "done"
    obs,         \* the frame `df` given to the chart functions (a sequence of rows)
    df_vol,      \* create_volume_chart's df_vol
    pr_df,       \* create_pr_chart's pr_df
    exercise_name \* create_pr_chart's argument

fetchVars == <<f_pc, page, workouts, requested, served>>
normVars  == <<n_pc, n_in, rows, n_exc>>
dashVars  == <<d_pc, df, gen, form, static, resp, nextGen, published, stale>>
aggVars   == <<a_pc, obs, df_vol, pr_df, exercise_name>>
vars      == <<fetchVars, normVars, dashVars, aggVars>>

(***************************************************************************)
(* Bounds                                                                  *)
(***************************************************************************)
MaxPages    == 3   \* pages the upstream is asked for before the model stops
MaxPageLen  == 2   \* sessions in one page
MaxSessions == 2   \* workouts in one batch given to process_workouts
MaxSets     == 2   \* sets of one exercise
NumThreads  == 2   \* concurrent dashboard requests
MaxFetches  == 3   \* refreshes in one run
MaxObs      == 4   \* rows of the frame given to the chart functions

\* sequences over S of length 0..n
RECURSIVE SeqsUpTo(_, _)
SeqsUpTo(S, n) ==
    IF n = 0 THEN {<<>>}
    ELSE LET shorter == SeqsUpTo(S, n - 1)
         IN  shorter \cup {Append(s, x) : s \in {q \in shorter : Len(q) = n - 1}, x \in S}

(***************************************************************************)
(* fetch_workouts                                                          *)
(***************************************************************************)
\* Session objects are opaque to fetch_workouts.
SessionIds == {"w1", "w2"}

PageArrays == SeqsUpTo(SessionIds, MaxPageLen)

\* What the upstream can do for one GET: fail in transport (requests.get
\* raises), answer with a status and a JSON body that is a bare array or an
\* object with an `items` array, or answer 200 with a body that is no JSON.
Responses ==
    {[io |-> "ConnectionError", status |-> 0, shape |-> "none", items |-> <<>>]}
    \cup {[io |-> "ok", status |-> s, shape |-> "array", items |-> <<>>] : s \in {500, 401}}
    \cup {[io |-> "ok", status |-> 200, shape |-> "text", items |-> <<>>]}
    \cup {[io |-> "ok", status |-> 200, shape |-> sh, items |-> a] :
            sh \in {"array", "envelope"}, a \in PageArrays}

\* bool(data) for the parsed body: a list is true when non-empty, a dict when
\* it has a key, and the envelope always has its `items` key.
Truthy(r) == IF r.shape = "array" THEN Len(r.items) > 0 ELSE TRUE

\* What list.extend(data) appends: the elements of a list, the keys of a dict.
ExtendWith(r) == IF r.shape = "array" THEN r.items ELSE <<"items">>

FetchInit ==
    /\ f_pc = "loop"
    /\ page = 1
    /\ workouts = <<>>
    /\ requested = <<>>
    /\ served = <<>>

FetchIdle ==
    /\ f_pc = "idle"
    /\ page = 0
    /\ workouts = <<>>
    /\ requested = <<>>
    /\ served = <<>>

\* One iteration of the while loop: the GET of `page` and what follows it.
FetchPage ==
    /\ f_pc = "loop"
    /\ page <= MaxPages
    /\ \E r \in Responses :
        /\ requested' = Append(requested, page)
        /\ served' = Append(served, r)
        /\ IF r.io # "ok"
           THEN \* requests.get raised: nothing catches it
                /\ f_pc' = "raised"
                /\ UNCHANGED <<page, workouts>>
           ELSE IF r.status # 200
           THEN \* print("API Error:", r.text); break; return workouts
                /\ f_pc' = "done"
                /\ UNCHANGED <<page, workouts>>
           ELSE IF r.shape = "text"
           THEN \* r.json() raised
                /\ f_pc' = "raised"
                /\ UNCHANGED <<page, workouts>>
           ELSE IF ~Truthy(r)
           THEN \* if not data: break; return workouts
                /\ f_pc' = "done"
                /\ UNCHANGED <<page, workouts>>
           ELSE /\ workouts' = workouts \o ExtendWith(r)
                /\ page' = page + 1
                /\ f_pc' = "loop"
    /\ UNCHANGED <<normVars, dashVars, aggVars>>

(***************************************************************************)
(* process_workouts                                                        *)
(***************************************************************************)
\* start_time values the upstream may send; "<absent>" stands for a workout
\* object without the key.
StartTimes == {"2024-01-08T09:30:00+00:00", "2024-01-01T10:00:00Z", "last monday", "<absent>"}

\* str.replace("Z", "+00:00") on the values above.
ReplaceZ(s) == IF s = "2024-01-01T10:00:00Z" THEN "2024-01-01T10:00:00+00:00" ELSE s

\* datetime.fromisoformat(s).date(): the date as yyyymmdd, or the ValueError.
FromIsoFormatDate(s) ==
    CASE s = "2024-01-01T10:00:00+00:00" -> [ok |-> TRUE, date |-> 20240101]
      [] s = "2024-01-08T09:30:00+00:00" -> [ok |-> TRUE, date |-> 20240108]
      [] OTHER                           -> [ok |-> FALSE, date |-> 0]

\* A JSON field of a set: absent, null, or a number.
Field(k, v) == [k |-> k, v |-> v]
WeightFields == {Field("absent", 0), Field("null", 0), Field("value", 80)}
RepsFields   == {Field("absent", 0), Field("null", 0), Field("value", 10)}
SetRecords   == [weight_kg : WeightFields, reps : RepsFields]

\* An exercise entry; name "<absent>" stands for an entry without the key.
ExNames   == {"Bench Press", "Squat"}
Exercises == [name : ExNames \cup {"<absent>"}, sets : SeqsUpTo(SetRecords, MaxSets)]

\* A workout carries at most one exercise entry here; w.get("exercises", [])
\* makes a missing list the empty one.
Workouts == [start_time : StartTimes, exercises : SeqsUpTo(Exercises, 1)]

\* set_data.get("weight_kg") is not None
HasWeight(st) == st.weight_kg.k = "value"

\* set_data.get("reps", 0): the default replaces an absent key only; a null
\* stays None.
GetReps(st) == IF st.reps.k = "absent" THEN Field("value", 0) ELSE st.reps

\* weight * reps raises TypeError when reps is None.
SetRaises(st) == HasWeight(st) /\ GetReps(st).k = "null"

\* The row appended for a set with a weight (lines 54-63).
Row(date, name, st) ==
    [date |-> date, exercise |-> name, weight |-> st.weight_kg.v,
     reps |-> GetReps(st).v, volume |-> st.weight_kg.v * GetReps(st).v]

\* The inner loop over one exercise's sets: the rows appended, in set order.
RECURSIVE SetRows(_, _, _)
SetRows(date, name, sets) ==
    IF sets = <<>> THEN <<>>
    ELSE (IF HasWeight(Head(sets)) THEN <<Row(date, name, Head(sets))>> ELSE <<>>)
         \o SetRows(date, name, Tail(sets))

\* Index of the first set of the list at which weight * reps raises, 0 if none.
FirstRaisingSet(sets) ==
    LET bad == {i \in 1..Len(sets) : SetRaises(sets[i])}
    IN  IF bad = {} THEN 0 ELSE CHOOSE i \in bad : \A j \in bad : i <= j

\* The exception one exercise entry raises, "none" if none.
ExerciseException(ex) ==
    IF ex.name = "<absent>" THEN "KeyError: name"
    ELSE IF FirstRaisingSet(ex.sets) # 0 THEN "TypeError"
    ELSE "none"

\* The loop over one workout's exercises: the first exception, "none" if none.
RECURSIVE ExercisesException(_)
ExercisesException(exs) ==
    IF exs = <<>> THEN "none"
    ELSE IF ExerciseException(Head(exs)) # "none" THEN ExerciseException(Head(exs))
    ELSE ExercisesException(Tail(exs))

RECURSIVE ExercisesRows(_, _)
ExercisesRows(date, exs) ==
    IF exs = <<>> THEN <<>>
    ELSE SetRows(date, Head(exs).name, Head(exs).sets) \o ExercisesRows(date, Tail(exs))

\* The exception one iteration of `for w in workouts` raises, "none" if none.
WorkoutException(w) ==
    IF w.start_time = "<absent>" THEN "KeyError: start_time"
    ELSE IF ~FromIsoFormatDate(ReplaceZ(w.start_time)).ok THEN "ValueError"
    ELSE ExercisesException(w.exercises)

NormInit ==
    /\ n_pc = "loop"
    /\ n_in = <<>>
    /\ rows = <<>>
    /\ n_exc = "none"

NormIdle ==
    /\ n_pc = "idle"
    /\ n_in = <<>>
    /\ rows = <<>>
    /\ n_exc = "none"

\* One iteration of `for w in workouts` (lines 48-63) on the next workout of
\* the batch.
ProcessWorkout ==
    /\ n_pc = "loop"
    /\ Len(n_in) < MaxSessions
    /\ \E w \in Workouts :
        /\ n_in' = Append(n_in, w)
        /\ IF WorkoutException(w) # "none"
           THEN \* the exception leaves process_workouts: no frame is returned
                /\ n_pc' = "raised"
                /\ n_exc' = WorkoutException(w)
                /\ UNCHANGED rows
           ELSE /\ rows' = rows \o ExercisesRows(FromIsoFormatDate(ReplaceZ(w.start_time)).date,
                                                 w.exercises)
                /\ UNCHANGED <<n_pc, n_exc>>
    /\ UNCHANGED <<fetchVars, dashVars, aggVars>>

\* The batch is exhausted: df = pd.DataFrame(rows); return df (lines 65-66).
\* An empty batch returns at line 45 with the empty frame.
ProcessReturn ==
    /\ n_pc = "loop"
    /\ n_pc' = "done"
    /\ UNCHANGED <<n_in, rows, n_exc>>
    /\ UNCHANGED <<fetchVars, dashVars, aggVars>>

(***************************************************************************)
(* dashboard: one handler run per request, requests served concurrently    *)
(* (app.run serves each request on its own thread).  A frame is kept as    *)
(* its exercise column; a chart file is kept as the number of the fetch    *)
(* whose frame it was drawn from.  Each savefig is taken as one atomic     *)
(* write of its file.                                                      *)
(***************************************************************************)
Threads == 1..NumThreads

\* The frames process_workouts can return, as their exercise column.
Frames == SeqsUpTo(ExNames, 2)

\* What a client can post as exercise_dropdown; "" is no value (a GET).
FormValues == {""} \cup ExNames

ChartFiles == {"heatmap", "volume_trend", "muscle_breakdown", "pr_chart"}

NoBundle == [exercises |-> <<>>, selected_exercise |-> "None", gen |-> 0]

Range(s) == {s[i] : i \in DOMAIN s}

\* sorted(df["exercise"].unique())
NameOrder == <<"Bench Press", "Squat">>
SortedUnique(col) == SelectSeq(NameOrder, LAMBDA n : n \in Range(col))

\* request.form.get("exercise_dropdown") or df["exercise"].iloc[0]
SelectedExercise(f, col) == IF f # "" THEN f ELSE col[1]

\* The states in which a handler is inside fetch -> normalize -> draw charts.
InPipeline == {"process", "heatmap", "volume", "muscle", "pr"}

DashInit ==
    /\ d_pc = [t \in Threads |-> "idle"]
    /\ df = [t \in Threads |-> <<>>]
    /\ gen = [t \in Threads |-> 0]
    /\ form = [t \in Threads |-> ""]
    /\ static = [f \in ChartFiles |-> 0]
    /\ resp = [t \in Threads |-> NoBundle]
    /\ nextGen = 1
    /\ published = NoBundle
    /\ stale = [t \in Threads |-> NoBundle]

DashIdle ==
    /\ d_pc = <<>>
    /\ df = <<>>
    /\ gen = <<>>
    /\ form = <<>>
    /\ static = <<>>
    /\ resp = <<>>
    /\ nextGen = 0
    /\ published = NoBundle
    /\ stale = <<>>

\* A request reaches the route: dashboard() is entered and calls
\* process_workouts (line 165), which starts its own fetch.
Request(t) ==
    /\ d_pc[t] \in {"idle", "responded", "error"}
    /\ nextGen <= MaxFetches
    /\ \E f \in FormValues : form' = [form EXCEPT ![t] = f]
    /\ gen' = [gen EXCEPT ![t] = nextGen]
    /\ nextGen' = nextGen + 1
    /\ df' = [df EXCEPT ![t] = <<>>]
    /\ d_pc' = [d_pc EXCEPT ![t] = "process"]
    /\ UNCHANGED <<static, resp, published, stale>>
    /\ UNCHANGED <<fetchVars, normVars, aggVars>>

\* process_workouts returns a frame (line 165) and the branch at line 166 is
\* taken; lines 176-177 set the empty branch's values.
Processed(t) ==
    /\ d_pc[t] = "process"
    /\ \E col \in Frames :
        /\ df' = [df EXCEPT ![t] = col]
        /\ IF col # <<>>
           THEN /\ d_pc' = [d_pc EXCEPT ![t] = "heatmap"]
                /\ UNCHANGED resp
           ELSE /\ d_pc' = [d_pc EXCEPT ![t] = "render"]
                /\ resp' = [resp EXCEPT ![t] = [exercises |-> <<>>,
                                                selected_exercise |-> "None",
                                                gen |-> gen[t]]]
    /\ UNCHANGED <<gen, form, static, nextGen, published, stale>>
    /\ UNCHANGED <<fetchVars, normVars, aggVars>>

\* process_workouts raises (an exception of fetch_workouts or of the loop over
\* the workouts): the handler ends with the server's error response.
ProcessRaised(t) ==
    /\ d_pc[t] = "process"
    /\ d_pc' = [d_pc EXCEPT ![t] = "error"]
    /\ UNCHANGED <<df, gen, form, static, resp, nextGen, published, stale>>
    /\ UNCHANGED <<fetchVars, normVars, aggVars>>

\* create_heatmap(df) / create_volume_chart(df) / create_muscle_breakdown(df):
\* the file is overwritten with the chart of this thread's frame.
DrawChart(t, at, file, next) ==
    /\ d_pc[t] = at
    /\ static' = [static EXCEPT ![file] = gen[t]]
    /\ d_pc' = [d_pc EXCEPT ![t] = next]
    /\ UNCHANGED <<df, gen, form, resp, nextGen, published, stale>>
    /\ UNCHANGED <<fetchVars, normVars, aggVars>>

Heatmap(t) == DrawChart(t, "heatmap", "heatmap", "volume")
VolumeTrend(t) == DrawChart(t, "volume", "volume_trend", "muscle")
MuscleBreakdown(t) == DrawChart(t, "muscle", "muscle_breakdown", "pr")

\* Lines 171-174: the selected exercise, create_pr_chart (which returns
\* without writing when the frame has no row of that exercise), the list.
PrChart(t) ==
    /\ d_pc[t] = "pr"
    /\ LET sel == SelectedExercise(form[t], df[t])
       IN  /\ static' = IF sel \in Range(df[t])
                        THEN [static EXCEPT !["pr_chart"] = gen[t]]
                        ELSE static
           /\ resp' = [resp EXCEPT ![t] = [exercises |-> SortedUnique(df[t]),
                                           selected_exercise |-> sel,
                                           gen |-> gen[t]]]
    /\ d_pc' = [d_pc EXCEPT ![t] = "render"]
    /\ UNCHANGED <<df, gen, form, nextGen, published, stale>>
    /\ UNCHANGED <<fetchVars, normVars, aggVars>>

\* Lines 179-183: the page is rendered from exercises and selected_exercise.
Render(t) ==
    /\ d_pc[t] = "render"
    /\ d_pc' = [d_pc EXCEPT ![t] = "responded"]
    /\ stale' = [stale EXCEPT ![t] = published]
    /\ published' = IF df[t] # <<>> THEN resp[t] ELSE published
    /\ UNCHANGED <<df, gen, form, static, resp, nextGen>>
    /\ UNCHANGED <<fetchVars, normVars, aggVars>>

(***************************************************************************)
(* create_volume_chart and create_pr_chart: the grouped series they plot   *)
(***************************************************************************)
\* The rows a frame can hold: what process_workouts appends (Row above), so
\* volume is weight * reps.
ObsDates   == {20240101, 20240108}
ObsWeights == {80, 100}
ObsReps    == {5}
ObsRows ==
    {[date |-> d, exercise |-> n, weight |-> w, reps |-> r, volume |-> w * r] :
        d \in ObsDates, n \in ExNames, w \in ObsWeights, r \in ObsReps}

\* The names create_pr_chart can be called with: the form's value is the
\* client's, so it may name an exercise the frame does not hold.
PrNames == ExNames \cup {"Deadlift"}

\* A set of numbers as the ascending sequence: groupby sorts its keys.
RECURSIVE Ascending(_)
Ascending(S) ==
    IF S = {} THEN <<>>
    ELSE LET m == CHOOSE x \in S : \A y \in S : x <= y
         IN  <<m>> \o Ascending(S \ {m})

\* groupby("date"): the sorted keys, and the rows of one key in frame order.
GroupKeys(frame) == Ascending({frame[i].date : i \in DOMAIN frame})
Group(frame, d) == SelectSeq(frame, LAMBDA r : r.date = d)

\* MutAggFirst: the group's first value in place of its sum.
MutAggFirst(col) == col[1]

\* .sum() of a group's column.
RECURSIVE AggSum(_)
AggSum(col) == IF col = <<>> THEN 0 ELSE Head(col) + AggSum(Tail(col))

\* .max() of a group's column (groups are never empty).
RECURSIVE AggMax(_)
AggMax(col) ==
    IF Len(col) = 1 THEN col[1]
    ELSE LET m == AggMax(Tail(col)) IN IF Head(col) > m THEN Head(col) ELSE m

Column(frame, c) == [i \in DOMAIN frame |-> frame[i][c]]

\* df.groupby("date")["volume"].sum().reset_index()   (line 93)
VolumeByDate(frame) ==
    LET keys == GroupKeys(frame)
    IN  [k \in DOMAIN keys |->
            [date |-> keys[k], volume |-> AggSum(Column(Group(frame, keys[k]), "volume"))]]

\* MutNoFilter: the frame taken whole, the exercise filter forgotten.
MutNoFilter(frame, name) == frame

\* df[df["exercise"] == exercise_name]   (line 110)
ExDf(frame, name) == SelectSeq(frame, LAMBDA r : r.exercise = name)

\* ex_df.groupby("date")["weight"].transform("max")   (line 113): for every
\* row the maximum weight of the row's date group.
TransformMax(frame) ==
    [i \in DOMAIN frame |-> AggMax(Column(Group(frame, frame[i].date), "weight"))]

\* ex_df.groupby("date")["max_weight"].max().reset_index()   (line 114)
PrByDate(ex_df) ==
    LET withMax == [i \in DOMAIN ex_df |->
                       [date |-> ex_df[i].date, max_weight |-> TransformMax(ex_df)[i]]]
        keys == GroupKeys(withMax)
    IN  [k \in DOMAIN keys |->
            [date |-> keys[k],
             max_weight |-> AggMax(Column(Group(withMax, keys[k]), "max_weight"))]]

AggInit ==
    /\ a_pc = "rows"
    /\ obs = <<>>
    /\ df_vol = <<>>
    /\ pr_df = <<>>
    /\ exercise_name = ""

AggIdle ==
    /\ a_pc = "idle"
    /\ obs = <<>>
    /\ df_vol = <<>>
    /\ pr_df = <<>>
    /\ exercise_name = ""

\* rows.append({...}) (line 57): the frame grows by one row.
AppendRow ==
    /\ a_pc = "rows"
    /\ Len(obs) < MaxObs
    /\ \E r \in ObsRows : obs' = Append(obs, r)
    /\ UNCHANGED <<a_pc, df_vol, pr_df, exercise_name>>
    /\ UNCHANGED <<fetchVars, normVars, dashVars>>

\* create_volume_chart(df): returns at once on an empty frame.
CreateVolumeChart ==
    /\ a_pc = "rows"
    /\ df_vol' = IF obs = <<>> THEN df_vol ELSE VolumeByDate(obs)
    /\ a_pc' = "vol"
    /\ UNCHANGED <<obs, pr_df, exercise_name>>
    /\ UNCHANGED <<fetchVars, normVars, dashVars>>

\* create_pr_chart(df, exercise_name): returns at once on an empty frame or
\* when no row is of that exercise.
CreatePrChart ==
    /\ a_pc = "vol"
    /\ \E name \in PrNames :
        /\ exercise_name' = name
        /\ pr_df' = IF obs = <<>> \/ ExDf(obs, name) = <<>>
                    THEN pr_df
                    ELSE PrByDate(ExDf(obs, name))
    /\ a_pc' = "done"
    /\ UNCHANGED <<obs, df_vol>>
    /\ UNCHANGED <<fetchVars, normVars, dashVars>>

(***************************************************************************)
(* Specifications                                                          *)
(***************************************************************************)
InitFetch == FetchInit /\ NormIdle /\ DashIdle /\ AggIdle
NextFetch == FetchPage
SpecFetch == InitFetch /\ [][NextFetch]_vars

InitNorm == FetchIdle /\ NormInit /\ DashIdle /\ AggIdle
NextNorm == ProcessWorkout \/ ProcessReturn
SpecNorm == InitNorm /\ [][NextNorm]_vars

InitDash == FetchIdle /\ NormIdle /\ DashInit /\ AggIdle
NextDash ==
    \E t \in Threads :
        \/ Request(t)
        \/ Processed(t)
        \/ ProcessRaised(t)
        \/ Heatmap(t)
        \/ VolumeTrend(t)
        \/ MuscleBreakdown(t)
        \/ PrChart(t)
        \/ Render(t)
SpecDash == InitDash /\ [][NextDash]_vars

InitAgg == FetchIdle /\ NormIdle /\ DashIdle /\ AggInit
NextAgg == AppendRow \/ CreateVolumeChart \/ CreatePrChart
SpecAgg == InitAgg /\ [][NextAgg]_vars

(***************************************************************************)
(* Properties of fetch_workouts                                            *)
(***************************************************************************)
\* The array of sessions a response carries, whatever its envelope.
SessionsOf(r) == r.items

\* A page that ends pagination: a non-success status or an empty result.
StopsPaging(r) == r.status # 200 \/ SessionsOf(r) = <<>>

RECURSIVE ConcatSessions(_)
ConcatSessions(rs) ==
    IF rs = <<>> THEN <<>> ELSE SessionsOf(Head(rs)) \o ConcatSessions(Tail(rs))

\* C1: whatever the upstream does, fetch_workouts asks for pages 1, 2, 3, ...
\* in order with none skipped or repeated, stops at the first page k that
\* has a non-success status or an empty result, never raises, and returns
\* exactly the sessions of pages 1..k-1 in page order.
C1_PagesInOrderPartialResult ==
    LET k == Len(requested)
    IN  /\ requested = [i \in 1..k |-> i]
        /\ f_pc # "raised"
        /\ \A i \in 1..(k - 1) : ~StopsPaging(served[i])
        /\ f_pc = "done" =>
              /\ k >= 1
              /\ StopsPaging(served[k])
              /\ workouts = ConcatSessions(SubSeq(served, 1, k - 1))
        /\ f_pc = "loop" =>
              /\ \A i \in 1..k : ~StopsPaging(served[i])
              /\ workouts = ConcatSessions(served)

\* A page answered with status 200 and a JSON body of one of the two shapes.
SuccessfulPage(r) == r.io = "ok" /\ r.status = 200 /\ r.shape \in {"array", "envelope"}

\* C2: for successful pages of either shape (bare array, object with an
\* `items` array) the result holds exactly the session objects of the arrays,
\* never the envelope or its keys, and a page whose array is empty ends
\* pagination whether or not it is wrapped.
C2_EnvelopeResolvedToArray ==
    (\A i \in DOMAIN served : SuccessfulPage(served[i])) =>
        /\ workouts = ConcatSessions(served)
        /\ f_pc = "done" <=> (\E i \in DOMAIN served : SessionsOf(served[i]) = <<>>)

(***************************************************************************)
(* Properties of process_workouts                                          *)
(***************************************************************************)
NormEnded == n_pc \in {"done", "raised"}

\* A workout whose start_time is present and parses.
DateParses(w) ==
    w.start_time # "<absent>" /\ FromIsoFormatDate(ReplaceZ(w.start_time)).ok

\* A workout with a date whose exercise entries all have their name.
WellFormed(w) ==
    DateParses(w) /\ \A i \in DOMAIN w.exercises : w.exercises[i].name # "<absent>"

\* The sets of a batch that have a weight, as <<workout, exercise, weight>>
\* in workout, exercise and set order.
RECURSIVE WeightedSets(_, _)
WeightedSets(batch, i) ==
    IF i > Len(batch) THEN <<>>
    ELSE LET exs == batch[i].exercises
             ofEx(e) == LET kept == SelectSeq(exs[e].sets,
                                              LAMBDA st : st.weight_kg.k = "value")
                        IN  [j \in DOMAIN kept |->
                                [exercise |-> exs[e].name, weight |-> kept[j].weight_kg.v]]
         IN  (IF exs = <<>> THEN <<>> ELSE ofEx(1)) \o WeightedSets(batch, i + 1)

\* C3: for every list of (well-formed) sessions process_workouts emits
\* exactly one Observation per set whose weight is present and non-null and
\* none for the others, in the session, exercise and set order of the input.
C3_OneObservationPerWeightedSet ==
    (NormEnded /\ \A i \in DOMAIN n_in : WellFormed(n_in[i])) =>
        /\ n_pc = "done"
        /\ [i \in DOMAIN rows |-> [exercise |-> rows[i].exercise, weight |-> rows[i].weight]]
              = WeightedSets(n_in, 1)

\* C4: every Observation has volume = reps * weight >= 0, and a set with a
\* weight but no reps value (key absent or null) is given reps 0, so the
\* product is defined for every such set.
C4_VolumeIsRepsTimesWeight ==
    /\ \A i \in DOMAIN rows :
          /\ rows[i].volume = rows[i].reps * rows[i].weight
          /\ rows[i].volume >= 0
    /\ n_exc # "TypeError"

RECURSIVE RowsOfDated(_)
RowsOfDated(batch) ==
    IF batch = <<>> THEN <<>>
    ELSE (IF DateParses(Head(batch))
          THEN ExercisesRows(FromIsoFormatDate(ReplaceZ(Head(batch).start_time)).date,
                             Head(batch).exercises)
          ELSE <<>>)
         \o RowsOfDated(Tail(batch))

\* C5: a session whose start_time is missing or does not parse is dropped
\* alone: the Observations of the other sessions of the batch are emitted
\* and no exception reaches the caller.  (Stated over batches whose dated
\* sessions raise nothing themselves.)
C5_BadDateDropsOnlyThatSession ==
    (NormEnded /\ \A i \in DOMAIN n_in :
                     DateParses(n_in[i]) => ExercisesException(n_in[i].exercises) = "none") =>
        /\ n_pc = "done"
        /\ rows = RowsOfDated(n_in)

(***************************************************************************)
(* Properties of the dashboard handler                                     *)
(***************************************************************************)
\* C6: a refresh whose fetch yields nothing serves the exercise list and the
\* selected exercise of the last non-empty refresh, not empty values.
C6_EmptyRefreshKeepsPublished ==
    \A t \in Threads :
        (d_pc[t] = "responded" /\ df[t] = <<>> /\ stale[t] # NoBundle) =>
            /\ resp[t].exercises = stale[t].exercises
            /\ resp[t].selected_exercise = stale[t].selected_exercise

\* C7: at every instant the published charts that exist all derive from one
\* fetch.
C7_ChartsFromOneFetch ==
    \A f, g \in ChartFiles : (static[f] # 0 /\ static[g] # 0) => static[f] = static[g]

\* C8: at no time are two runs of the fetch -> normalize -> aggregate
\* pipeline in progress at once.
C8_RefreshesSerialized ==
    Cardinality({t \in Threads : d_pc[t] \in InPipeline}) <= 1

(***************************************************************************)
(* Properties of the chart series                                          *)
(***************************************************************************)
\* The rows of the frame that are of the exercise create_pr_chart was given.
OfExercise == {i \in DOMAIN obs : obs[i].exercise = exercise_name}

\* C9: the PR series has exactly one entry per distinct date on which the
\* exercise has an Observation, in ascending date order, each entry's weight
\* the maximum weight of that exercise's Observations of that date; rows of
\* other exercises do not affect it.
C9_PrSeriesIsDailyMax ==
    (a_pc = "done" /\ OfExercise # {}) =>
        LET dates == {obs[i].date : i \in OfExercise}
        IN  /\ Len(pr_df) = Cardinality(dates)
            /\ \A k \in DOMAIN pr_df : pr_df[k].date \in dates
            /\ \A k \in 1..(Len(pr_df) - 1) : pr_df[k].date < pr_df[k + 1].date
            /\ \A k \in DOMAIN pr_df :
                  /\ \E i \in OfExercise :
                        obs[i].date = pr_df[k].date /\ obs[i].weight = pr_df[k].max_weight
                  /\ \A i \in OfExercise :
                        obs[i].date = pr_df[k].date => obs[i].weight <= pr_df[k].max_weight

\* C9 witness: the series was computed from a frame given out of date order,
\* holding two sets at one day's maximum and a heavier set of another
\* exercise on that day.
C9_Witness ==
    /\ a_pc = "done"
    /\ Len(pr_df) = 2
    /\ obs[1].date > obs[2].date
    /\ \E i, j \in OfExercise :
          /\ i # j
          /\ obs[i].date = obs[j].date
          /\ obs[i].weight = obs[j].weight
          /\ \A m \in OfExercise : obs[m].date = obs[i].date => obs[m].weight <= obs[i].weight
          /\ \E m \in DOMAIN obs \ OfExercise :
                obs[m].date = obs[i].date /\ obs[m].weight > obs[i].weight

RECURSIVE SumOver(_, _)
SumOver(f, S) ==
    IF S = {} THEN 0
    ELSE LET x == CHOOSE y \in S : TRUE IN f[x] + SumOver(f, S \ {x})

\* The frame with rows i and j exchanged.
Swapped(frame, i, j) ==
    [m \in DOMAIN frame |-> IF m = i THEN frame[j] ELSE IF m = j THEN frame[i] ELSE frame[m]]

\* C10: the volume series gives every date of the frame exactly one key, its
\* totals add up to the sum of all Observation volumes, and it does not
\* depend on the order of the rows.
C10_VolumeConserved ==
    (a_pc \in {"vol", "pr", "done"} /\ obs # <<>>) =>
        /\ {df_vol[k].date : k \in DOMAIN df_vol} = {obs[i].date : i \in DOMAIN obs}
        /\ \A k, m \in DOMAIN df_vol : df_vol[k].date = df_vol[m].date => k = m
        /\ SumOver([k \in DOMAIN df_vol |-> df_vol[k].volume], DOMAIN df_vol)
              = SumOver([i \in DOMAIN obs |-> obs[i].volume], DOMAIN obs)
        /\ \A i, j \in DOMAIN obs : VolumeByDate(Swapped(obs, i, j)) = df_vol

\* C10 witness: a series of two dates, one of them totalling several rows of
\* different volume, from a frame not in date order.
C10_Witness ==
    /\ a_pc = "vol"
    /\ Len(df_vol) = 2
    /\ \E i, j \in DOMAIN obs :
          i # j /\ obs[i].date = obs[j].date /\ obs[i].volume # obs[j].volume
    /\ \E i \in 1..(Len(obs) - 1) : obs[i].date > obs[i + 1].date

====
